---- MODULE Spec2Model ----
(***************************************************************************)
(* Model of the real-time gateway (websocket_endpoint) and of the process  *)
(* lifecycle controller (lifespan) of src/main.py, together with the       *)
(* Connection Registry (core.websocket.manager) and the Pub/Sub Bridge     *)
(* (core.notifications_websocket.notifications_manager) they call.         *)
(***************************************************************************)
EXTENDS Integers, FiniteSets, Sequences, TLC

\* ------------------------------------------------------------------ bounds
\* Largest number of text frames one connection's read loop receives.
MaxFrames == 2

\* ------------------------------------------------------- program constants
\* The websockets the server may see.
Conns == {"ws1", "ws2"}

\* Role allow-list of the real-time endpoint.
AllowedRoles == {"driver", "customer", "admin"}

\* Values the {role} path parameter may take: every str, here the allow-list
\* and one string outside it.
Roles == AllowedRoles \cup {"guest"}

\* role of a websocket whose handler has not been called yet
NoRole == "none"

VARIABLES
    lpc,             \* position of lifespan()
    schemaDone,      \* Base.metadata.create_all has completed
    startCalls,      \* number of calls of notifications_manager.start_subscriber
    startReturns,    \* number of those calls that returned
    stopCalls,       \* number of calls of notifications_manager.stop_subscriber
    stopReturns,     \* number of those calls that returned
    disposeCalls,    \* number of calls of engine.dispose
    sub,             \* state of the bridge subscription
    pc,              \* position of websocket_endpoint() per websocket
    role,            \* the role argument of websocket_endpoint() per websocket
    registry,        \* manager's role buckets: role -> set of websockets
    pings,           \* "ping" text frames received per websocket
    others,          \* other text frames received per websocket
    pongs,           \* "pong" text frames sent per websocket
    connectCalls,    \* calls of manager.connect per websocket
    disconnectCalls, \* calls of manager.disconnect per websocket
    gotData          \* websockets that were sent a payload by the registry

vars == <<lpc, schemaDone, startCalls, startReturns, stopCalls, stopReturns,
          disposeCalls, sub, pc, role, registry, pings, others, pongs,
          connectCalls, disconnectCalls, gotData>>

lifeVars == <<lpc, schemaDone, startCalls, startReturns, stopCalls,
              stopReturns, disposeCalls>>
connVars == <<pc, role, registry, pings, others, pongs, connectCalls,
              disconnectCalls>>

Init ==
    /\ lpc = "start"
    /\ schemaDone = FALSE
    /\ startCalls = 0
    /\ startReturns = 0
    /\ stopCalls = 0
    /\ stopReturns = 0
    /\ disposeCalls = 0
    /\ sub = "none"
    /\ pc = [c \in Conns |-> "idle"]
    /\ role = [c \in Conns |-> NoRole]
    /\ registry = [r \in Roles |-> {}]
    /\ pings = [c \in Conns |-> 0]
    /\ others = [c \in Conns |-> 0]
    /\ pongs = [c \in Conns |-> 0]
    /\ connectCalls = [c \in Conns |-> 0]
    /\ disconnectCalls = [c \in Conns |-> 0]
    /\ gotData = {}

\* ---------------------------------------------------- Connection Registry
\* manager.connect(websocket, role): adds the connection under the role bucket.
Register(reg, ws, r) == [reg EXCEPT ![r] = @ \cup {ws}]

\* manager.disconnect(websocket, role): removes the connection from the role
\* bucket if present, no error if absent.
Unregister(reg, ws, r) == [reg EXCEPT ![r] = @ \ {ws}]

\* The transport of a websocket is usable while its handler is in the read loop.
Alive(c) == pc[c] \in {"recv", "send"}

Registered(c) == \E r \in Roles : c \in registry[r]

\* ------------------------------------------------------------- lifespan()
\* CreateSchema with the failure of create_all swallowed: startup goes on
CreateSchemaFailOpen ==
    /\ lpc = "start"
    /\ \E ok \in BOOLEAN :
         /\ schemaDone' = ok
         /\ lpc' = "schema_done"
    /\ UNCHANGED <<startCalls, startReturns, stopCalls, stopReturns,
                   disposeCalls, sub, gotData>>
    /\ UNCHANGED connVars

\* async with engine.begin() as conn: await conn.run_sync(create_all)
CreateSchema ==
    /\ lpc = "start"
    /\ \E ok \in BOOLEAN :
         IF ok
         THEN /\ schemaDone' = TRUE
              /\ lpc' = "schema_done"
         ELSE /\ schemaDone' = schemaDone
              /\ lpc' = "startup_failed"
    /\ UNCHANGED <<startCalls, startReturns, stopCalls, stopReturns,
                   disposeCalls, sub, gotData>>
    /\ UNCHANGED connVars

\* StartSubscriber with the subscriber started a second time
StartSubscriberTwice ==
    /\ lpc = "schema_done"
    /\ startCalls' = startCalls + 2
    /\ \E ok \in BOOLEAN :
         IF ok
         THEN /\ sub' = "running"
              /\ startReturns' = startReturns + 2
              /\ lpc' = "serving"
         ELSE /\ sub' = sub
              /\ startReturns' = startReturns
              /\ lpc' = "startup_failed"
    /\ UNCHANGED <<schemaDone, stopCalls, stopReturns, disposeCalls, gotData>>
    /\ UNCHANGED connVars

\* await notifications_manager.start_subscriber(settings.REDIS_URL); yield
StartSubscriber ==
    /\ lpc = "schema_done"
    /\ startCalls' = startCalls + 1
    /\ \E ok \in BOOLEAN :
         IF ok
         THEN /\ sub' = "running"
              /\ startReturns' = startReturns + 1
              /\ lpc' = "serving"
         ELSE /\ sub' = sub
              /\ startReturns' = startReturns
              /\ lpc' = "startup_failed"
    /\ UNCHANGED <<schemaDone, stopCalls, stopReturns, disposeCalls, gotData>>
    /\ UNCHANGED connVars

\* BeginShutdown with the two shutdown lines swapped: engine.dispose() first
BeginShutdownDisposeFirst ==
    /\ lpc = "serving"
    /\ disposeCalls' = disposeCalls + 1
    /\ lpc' = "disposing"
    /\ UNCHANGED <<schemaDone, startCalls, startReturns, stopCalls,
                   stopReturns, sub, gotData>>
    /\ UNCHANGED connVars

\* the generator is resumed after the yield and calls stop_subscriber()
BeginShutdown ==
    /\ lpc = "serving"
    /\ stopCalls' = stopCalls + 1
    /\ lpc' = "stopping"
    /\ UNCHANGED <<schemaDone, startCalls, startReturns, stopReturns,
                   disposeCalls, sub, gotData>>
    /\ UNCHANGED connVars

\* await notifications_manager.stop_subscriber() completes (or raises), then
\* engine.dispose() is called
StopSubscriber ==
    /\ lpc = "stopping"
    /\ \E ok \in BOOLEAN :
         IF ok
         THEN /\ sub' = "stopped"
              /\ stopReturns' = stopReturns + 1
              /\ disposeCalls' = disposeCalls + 1
              /\ lpc' = "disposing"
         ELSE /\ sub' = sub
              /\ stopReturns' = stopReturns
              /\ disposeCalls' = disposeCalls
              /\ lpc' = "shutdown_failed"
    /\ UNCHANGED <<schemaDone, startCalls, startReturns, stopCalls, gotData>>
    /\ UNCHANGED connVars

\* await engine.dispose() completes
Dispose ==
    /\ lpc = "disposing"
    /\ lpc' = "exited"
    /\ UNCHANGED <<schemaDone, startCalls, startReturns, stopCalls,
                   stopReturns, disposeCalls, sub, gotData>>
    /\ UNCHANGED connVars

\* ----------------------------------------------------------- Pub/Sub Bridge
\* the connection to the external channel drops: the bridge enters backoff
BridgeLoseConnection ==
    /\ sub = "running"
    /\ sub' = "backoff"
    /\ UNCHANGED lifeVars /\ UNCHANGED connVars /\ UNCHANGED gotData

\* a retry succeeds
BridgeReconnect ==
    /\ sub = "backoff"
    /\ sub' = "running"
    /\ UNCHANGED lifeVars /\ UNCHANGED connVars /\ UNCHANGED gotData

\* a message for role r arrives: send_to(r, payload) delivers to every
\* connection of the bucket; a failed write prunes the connection
BridgeDeliver(r) ==
    /\ sub = "running"
    /\ registry[r] # {}
    /\ gotData' = gotData \cup {c \in registry[r] : Alive(c)}
    /\ registry' = [registry EXCEPT ![r] = {c \in @ : Alive(c)}]
    /\ UNCHANGED lifeVars
    /\ UNCHANGED <<sub, pc, role, pings, others, pongs, connectCalls,
                   disconnectCalls>>

\* ------------------------------------------------------ websocket_endpoint()
\* await manager.connect(websocket, role)
Connect(c, r) ==
    /\ lpc = "serving"
    /\ pc[c] = "idle"
    /\ role' = [role EXCEPT ![c] = r]
    /\ connectCalls' = [connectCalls EXCEPT ![c] = @ + 1]
    /\ \E ok \in BOOLEAN :
         IF ok
         THEN /\ registry' = Register(registry, c, r)
              /\ pc' = [pc EXCEPT ![c] = "recv"]
         ELSE /\ registry' = registry
              /\ pc' = [pc EXCEPT ![c] = "rejected"]
    /\ UNCHANGED lifeVars
    /\ UNCHANGED <<sub, pings, others, pongs, disconnectCalls, gotData>>

\* RecvPing without the reply: the loop reads the next frame at once
RecvPingNoReply(c) ==
    /\ pc[c] = "recv"
    /\ pings[c] + others[c] < MaxFrames
    /\ pings' = [pings EXCEPT ![c] = @ + 1]
    /\ pc' = [pc EXCEPT ![c] = "recv"]
    /\ UNCHANGED lifeVars
    /\ UNCHANGED <<sub, role, registry, others, pongs, connectCalls,
                   disconnectCalls, gotData>>

\* data = await websocket.receive_text(); data == "ping"
RecvPing(c) ==
    /\ pc[c] = "recv"
    /\ pings[c] + others[c] < MaxFrames
    /\ pings' = [pings EXCEPT ![c] = @ + 1]
    /\ pc' = [pc EXCEPT ![c] = "send"]
    /\ UNCHANGED lifeVars
    /\ UNCHANGED <<sub, role, registry, others, pongs, connectCalls,
                   disconnectCalls, gotData>>

\* SendPong that waits for the bridge subscription to be up
SendPongNeedsBridge(c) ==
    /\ sub = "running"
    /\ pc[c] = "send"
    /\ pongs' = [pongs EXCEPT ![c] = @ + 1]
    /\ pc' = [pc EXCEPT ![c] = "recv"]
    /\ UNCHANGED lifeVars
    /\ UNCHANGED <<sub, role, registry, pings, others, connectCalls,
                   disconnectCalls, gotData>>

\* await websocket.send_text("pong") returns
SendPong(c) ==
    /\ pc[c] = "send"
    /\ pongs' = [pongs EXCEPT ![c] = @ + 1]
    /\ pc' = [pc EXCEPT ![c] = "recv"]
    /\ UNCHANGED lifeVars
    /\ UNCHANGED <<sub, role, registry, pings, others, connectCalls,
                   disconnectCalls, gotData>>

\* RecvOther that treats an unknown frame as the end of the session
RecvOtherCloses(c) ==
    /\ pc[c] = "recv"
    /\ pings[c] + others[c] < MaxFrames
    /\ others' = [others EXCEPT ![c] = @ + 1]
    /\ registry' = Unregister(registry, c, role[c])
    /\ pc' = [pc EXCEPT ![c] = "done"]
    /\ UNCHANGED lifeVars
    /\ UNCHANGED <<sub, role, pings, pongs, connectCalls, disconnectCalls,
                   gotData>>

\* data = await websocket.receive_text(); data != "ping": nothing is done with
\* the frame and the loop reads again
RecvOther(c) ==
    /\ pc[c] = "recv"
    /\ pings[c] + others[c] < MaxFrames
    /\ others' = [others EXCEPT ![c] = @ + 1]
    /\ pc' = [pc EXCEPT ![c] = "recv"]
    /\ UNCHANGED lifeVars
    /\ UNCHANGED <<sub, role, registry, pings, pongs, connectCalls,
                   disconnectCalls, gotData>>

\* RecvDisconnect that unregisters from a fixed bucket instead of role
RecvDisconnectWrongRole(c) ==
    /\ pc[c] = "recv"
    /\ registry' = Unregister(registry, c, "driver")
    /\ disconnectCalls' = [disconnectCalls EXCEPT ![c] = @ + 1]
    /\ pc' = [pc EXCEPT ![c] = "done"]
    /\ UNCHANGED lifeVars
    /\ UNCHANGED <<sub, role, pings, others, pongs, connectCalls, gotData>>

\* RecvDisconnect with the except clause inside the while loop: it reads again
RecvDisconnectKeepsReading(c) ==
    /\ pc[c] = "recv"
    /\ registry' = Unregister(registry, c, role[c])
    /\ disconnectCalls' = [disconnectCalls EXCEPT ![c] = @ + 1]
    /\ pc' = [pc EXCEPT ![c] = "recv"]
    /\ UNCHANGED lifeVars
    /\ UNCHANGED <<sub, role, pings, others, pongs, connectCalls, gotData>>

\* receive_text() raises WebSocketDisconnect:
\* except WebSocketDisconnect: manager.disconnect(websocket, role)
RecvDisconnect(c) ==
    /\ pc[c] = "recv"
    /\ registry' = Unregister(registry, c, role[c])
    /\ disconnectCalls' = [disconnectCalls EXCEPT ![c] = @ + 1]
    /\ pc' = [pc EXCEPT ![c] = "done"]
    /\ UNCHANGED lifeVars
    /\ UNCHANGED <<sub, role, pings, others, pongs, connectCalls, gotData>>

\* receive_text() raises another exception (a frame without text): no except
\* clause matches and the exception leaves the handler
RecvError(c) ==
    /\ pc[c] = "recv"
    /\ pc' = [pc EXCEPT ![c] = "failed"]
    /\ UNCHANGED lifeVars
    /\ UNCHANGED <<sub, role, registry, pings, others, pongs, connectCalls,
                   disconnectCalls, gotData>>

\* send_text("pong") raises WebSocketDisconnect (the transport is gone):
\* except WebSocketDisconnect: manager.disconnect(websocket, role)
SendDisconnect(c) ==
    /\ pc[c] = "send"
    /\ registry' = Unregister(registry, c, role[c])
    /\ disconnectCalls' = [disconnectCalls EXCEPT ![c] = @ + 1]
    /\ pc' = [pc EXCEPT ![c] = "done"]
    /\ UNCHANGED lifeVars
    /\ UNCHANGED <<sub, role, pings, others, pongs, connectCalls, gotData>>

\* send_text("pong") raises another exception: it leaves the handler
SendError(c) ==
    /\ pc[c] = "send"
    /\ pc' = [pc EXCEPT ![c] = "failed"]
    /\ UNCHANGED lifeVars
    /\ UNCHANGED <<sub, role, registry, pings, others, pongs, connectCalls,
                   disconnectCalls, gotData>>

Next ==
    \/ CreateSchema
    \/ StartSubscriber
    \/ BeginShutdown
    \/ StopSubscriber
    \/ Dispose
    \/ BridgeLoseConnection
    \/ BridgeReconnect
    \/ \E r \in Roles : BridgeDeliver(r)
    \/ \E c \in Conns, r \in Roles : Connect(c, r)
    \/ \E c \in Conns : RecvPing(c)
    \/ \E c \in Conns : SendPong(c)
    \/ \E c \in Conns : RecvOther(c)
    \/ \E c \in Conns : RecvDisconnect(c)
    \/ \E c \in Conns : RecvError(c)
    \/ \E c \in Conns : SendDisconnect(c)
    \/ \E c \in Conns : SendError(c)

Spec == Init /\ [][Next]_vars

\* ------------------------------------------------------------------ claims
\* C1: on an open connection every "ping" read is answered by exactly one
\* "pong" before the next frame is read, and handling the ping makes no call
\* of manager.connect or manager.disconnect and leaves the registry as it was.
C1_PingPong ==
    /\ [](\A c \in Conns :
            /\ pc[c] = "recv" => pongs[c] = pings[c]
            /\ pc[c] = "send" => pongs[c] + 1 = pings[c])
    /\ [][\A c \in Conns :
            (pings'[c] # pings[c] \/ pongs'[c] # pongs[c]) =>
                /\ registry' = registry
                /\ connectCalls' = connectCalls
                /\ disconnectCalls' = disconnectCalls]_vars

C1_Witness ==
    \E c \in Conns : pc[c] = "recv" /\ pongs[c] >= 1 /\ Registered(c)

\* C2: whatever way the read loop exits, the connection of a finished handler
\* has been unregistered from the registry.
C2_CleanupOnEveryExit ==
    \A c \in Conns : pc[c] \in {"done", "failed"} => ~Registered(c)

\* C3: start_subscriber is called only after create_all has completed; when
\* create_all fails the subscriber is never started, the serving phase is
\* never reached and no connection is ever accepted.
C3_StartupOrder ==
    /\ startCalls > 0 => schemaDone
    /\ lpc \in {"serving", "stopping", "disposing", "exited", "shutdown_failed"}
         => schemaDone /\ startReturns = 1
    /\ \A c \in Conns : pc[c] # "idle" => schemaDone /\ startReturns = 1

C3_Witness ==
    /\ schemaDone /\ startReturns = 1
    /\ \E c \in Conns : pc[c] = "recv"

\* C4: whenever engine.dispose has been called, stop_subscriber has been
\* called and has returned, and the bridge subscription is stopped.
C4_ShutdownOrder ==
    (disposeCalls > 0 \/ lpc \in {"disposing", "exited"}) =>
        /\ stopCalls = 1
        /\ stopReturns = 1
        /\ sub = "stopped"

C4_Witness == lpc = "disposing" /\ disposeCalls = 1

\* C5: a connection whose role is outside the allow-list is never in the
\* registry, never enters the read loop and never receives a frame.
C5_UnauthenticatedNeverOpen ==
    \A c \in Conns :
        (role[c] # NoRole /\ role[c] \notin AllowedRoles) =>
            /\ ~Registered(c)
            /\ pc[c] \notin {"recv", "send"}
            /\ pongs[c] = 0
            /\ c \notin gotData

\* C6: once the disconnect of a connection has been handled, the connection
\* is in no role bucket of the registry.
C6_NoStaleEntry ==
    \A c \in Conns :
        (pc[c] = "done" \/ disconnectCalls[c] > 0) => ~Registered(c)

C6_Witness ==
    \E c \in Conns :
        /\ pc[c] = "done" /\ disconnectCalls[c] = 1
        /\ role[c] \in Roles \ {"driver"}

C8_GatewayIsolated ==
    sub = "backoff" =>
        \A c \in Conns :
            /\ (pc[c] = "recv" /\ pings[c] + others[c] < MaxFrames)
                  => ENABLED RecvPing(c)
            /\ pc[c] = "send" => ENABLED SendPong(c)
            /\ pc[c] = "recv" => ENABLED RecvDisconnect(c)
            /\ (pc[c] = "idle" /\ lpc = "serving")
                  => \A r \in Roles : ENABLED Connect(c, r)

C8_Witness ==
    /\ sub = "backoff" /\ lpc = "serving"
    /\ \E c, d \in Conns : pc[c] = "send" /\ pc[d] = "idle"

\* C9: start_subscriber is called at most once, exactly once when startup
\* succeeded; stop_subscriber is called at most once and only after
\* start_subscriber returned; at most one subscription is open.
C9_SingleSubscription ==
    /\ startCalls <= 1
    /\ stopCalls <= 1
    /\ stopCalls > 0 => startReturns = 1
    /\ lpc \in {"serving", "stopping", "disposing", "exited", "shutdown_failed"}
         => startCalls = 1
    /\ startReturns - stopReturns <= 1

C9_Witness == stopCalls = 1 /\ startCalls = 1 /\ lpc = "stopping"

\* C10: per connection, manager.disconnect is called at most once, only after
\* manager.connect returned, and ends the handler: no frame is read and no
\* "pong" sent afterwards; when manager.connect raises, no frame is read and
\* manager.disconnect is not called.
C10_EventOrder ==
    /\ [](\A c \in Conns :
            /\ connectCalls[c] <= 1
            /\ disconnectCalls[c] <= 1
            /\ disconnectCalls[c] = 1 => connectCalls[c] = 1 /\ pc[c] = "done"
            /\ pc[c] \in {"idle", "rejected"} =>
                  /\ pings[c] = 0 /\ others[c] = 0 /\ pongs[c] = 0
                  /\ disconnectCalls[c] = 0)
    /\ [][\A c \in Conns :
            disconnectCalls[c] >= 1 =>
                /\ pings'[c] = pings[c]
                /\ others'[c] = others[c]
                /\ pongs'[c] = pongs[c]
                /\ disconnectCalls'[c] = disconnectCalls[c]]_vars

C10_Witness ==
    \E c, d \in Conns :
        /\ pc[c] = "done" /\ disconnectCalls[c] = 1
        /\ pings[c] + others[c] >= 1
        /\ pc[d] = "rejected"

TypeOK ==
    /\ lpc \in {"start", "schema_done", "serving", "stopping", "disposing",
                "exited", "startup_failed", "shutdown_failed"}
    /\ sub \in {"none", "running", "backoff", "stopped"}
    /\ pc \in [Conns -> {"idle", "recv", "send", "done", "failed", "rejected"}]
    /\ role \in [Conns -> Roles \cup {NoRole}]
    /\ registry \in [Roles -> SUBSET Conns]
    /\ gotData \subseteq Conns
====
